---- MODULE Spec2Model ----
(***************************************************************************)
(* Model of text_summarizer_app.py: a Streamlit page whose script is run   *)
(* from top to bottom on every user interaction.  One script run loads the *)
(* (cached) summarization model, acquires the input text, and, when the    *)
(* Summarize button was the interaction, validates and runs the pipeline   *)
(* get_text_metrics -> translate_text -> summarizer -> translate_text ->   *)
(* get_text_metrics -> render inside one try/except.                       *)
(*                                                                         *)
(* Texts are sequences of one-character strings.  The external services    *)
(* (translator, summarizer, the metric libraries, the file parsers) are    *)
(* nondeterministic: each call returns a value of a small pool or raises.  *)
(***************************************************************************)
EXTENDS Integers, Sequences, FiniteSets, TLC

\* ------------------------------------------------------------------ bounds
\* Longest text typed into the text area.
MaxLen == 3
\* Most pages / paragraphs of an uploaded document.
MaxParts == 2

\* ------------------------------------------------------------------ texts
SP == " "
NL == "\n"
InputChars == {SP, "a", "."}
AllChars == {SP, NL, "a", ".", "é"}

RECURSIVE TextsUpTo(_, _)
TextsUpTo(chars, n) ==
    IF n = 0 THEN {<<>>}
    ELSE LET shorter == TextsUpTo(chars, n - 1)
         IN  shorter \cup {Append(t, c) : t \in shorter, c \in chars}

\* What the user can type into the text area.
TypedTexts == TextsUpTo(InputChars, MaxLen)

\* The value of a name the script has not bound in this run.
UnboundText == <<"<unbound>">>

\* str.isspace on the characters of the model.
IsSpace(c) == c \in {SP, NL}

RECURSIVE LStrip(_)
LStrip(t) ==
    IF t = <<>> THEN <<>>
    ELSE IF IsSpace(Head(t)) THEN LStrip(Tail(t)) ELSE t

RECURSIVE RStrip(_)
RStrip(t) ==
    IF t = <<>> THEN <<>>
    ELSE IF IsSpace(t[Len(t)]) THEN RStrip(SubSeq(t, 1, Len(t) - 1)) ELSE t

\* str.strip(): leading and trailing whitespace removed.
Strip(t) == RStrip(LStrip(t))

RECURSIVE SplitAcc(_, _, _)
SplitAcc(rest, cur, words) ==
    IF rest = <<>>
    THEN IF cur = <<>> THEN words ELSE Append(words, cur)
    ELSE IF IsSpace(Head(rest))
         THEN SplitAcc(Tail(rest), <<>>,
                       IF cur = <<>> THEN words ELSE Append(words, cur))
         ELSE SplitAcc(Tail(rest), Append(cur, Head(rest)), words)

\* str.split(): the maximal runs of non-whitespace characters, in order.
Split(t) == SplitAcc(t, <<>>, <<>>)

RECURSIVE Join(_, _)
\* sep.join(parts)
Join(sep, parts) ==
    IF parts = <<>> THEN <<>>
    ELSE IF Len(parts) = 1 THEN parts[1]
    ELSE parts[1] \o sep \o Join(sep, Tail(parts))

\* ------------------------------------------------------- get_text_metrics
\* The readability, sentence and language values come from libraries: each
\* is kept as the library call applied to its argument.
get_text_metrics(t) ==
    [word_count     |-> Len(Split(t)),
     sentence_count |-> <<"TextBlob.sentences", t>>,
     flesch_score   |-> <<"textstat.flesch_reading_ease", t>>,
     smog_score     |-> <<"textstat.smog_index", t>>,
     language       |-> <<"langdetect.detect", t>>]

UnboundMetrics ==
    [word_count     |-> -1,
     sentence_count |-> <<"<unbound>">>,
     flesch_score   |-> <<"<unbound>">>,
     smog_score     |-> <<"<unbound>">>,
     language       |-> <<"<unbound>">>]

\* ------------------------------------------------------ get_download_link
\* str.encode(): the UTF-8 bytes of one character.
Utf8Char(c) ==
    CASE c = SP  -> <<32>>
      [] c = NL  -> <<10>>
      [] c = "." -> <<46>>
      [] c = "a" -> <<97>>
      [] c = "é" -> <<195, 169>>

RECURSIVE Utf8Encode(_)
Utf8Encode(t) ==
    IF t = <<>> THEN <<>> ELSE Utf8Char(Head(t)) \o Utf8Encode(Tail(t))

B64Alphabet ==
    << "A","B","C","D","E","F","G","H","I","J","K","L","M","N","O","P",
       "Q","R","S","T","U","V","W","X","Y","Z","a","b","c","d","e","f",
       "g","h","i","j","k","l","m","n","o","p","q","r","s","t","u","v",
       "w","x","y","z","0","1","2","3","4","5","6","7","8","9","+","/" >>

B64Digit(n) == B64Alphabet[n + 1]

RECURSIVE B64Encode(_)
\* base64.b64encode: three bytes become four digits, the tail is padded.
B64Encode(b) ==
    IF b = <<>> THEN <<>>
    ELSE IF Len(b) = 1
    THEN << B64Digit(b[1] \div 4), B64Digit((b[1] % 4) * 16), "=", "=" >>
    ELSE IF Len(b) = 2
    THEN << B64Digit(b[1] \div 4),
            B64Digit((b[1] % 4) * 16 + (b[2] \div 16)),
            B64Digit((b[2] % 16) * 4), "=" >>
    ELSE << B64Digit(b[1] \div 4),
            B64Digit((b[1] % 4) * 16 + (b[2] \div 16)),
            B64Digit((b[2] % 16) * 4 + (b[3] \div 64)),
            B64Digit(b[3] % 64) >> \o B64Encode(SubSeq(b, 4, Len(b)))

\* The <a href="data:file/txt;base64,..." download="..."> element.
get_download_link(t, filename) ==
    [href |-> <<"data:file/txt;base64,">> \o B64Encode(Utf8Encode(t)),
     download |-> filename]

\* ------------------------------------------------------------ the widgets
InputModes == {"Manual Text", "Upload Document"}
\* Slider positions tried: the defaults (30 and 60) and one other each.
MinLens == {30, 100}
MaxLens == {30, 60}
Languages == {"en", "ta", "hi", "fr", "es"}

TextPlain == "text/plain"
Pdf == "application/pdf"
Docx == "application/vnd.openxmlformats-officedocument.wordprocessingml.document"
OtherType == "application/octet-stream"
SupportedTypes == {TextPlain, Pdf, Docx}

\* The text of one page or paragraph of an uploaded document.
PartTexts == {<<>>, <<"a">>}

RECURSIVE PartLists(_)
PartLists(n) ==
    IF n = 0 THEN {<<>>}
    ELSE LET shorter == PartLists(n - 1)
         IN  shorter \cup {Append(ps, p) : ps \in shorter, p \in PartTexts}

\* file_uploader returns None until a file is uploaded.
NoFile == [type |-> "None", parts |-> <<>>, readable |-> TRUE]

\* An uploaded file: its declared type, its content (the decoded text of a
\* plain file, the page texts of a PDF, the paragraph texts of a DOCX) and
\* whether its parser accepts it.
Files ==
    [type : {TextPlain, OtherType}, parts : {<<p>> : p \in PartTexts \cup {<<SP>>}},
     readable : {TRUE}]
    \cup [type : {Pdf, Docx}, parts : PartLists(MaxParts), readable : {TRUE}]
    \cup [type : SupportedTypes, parts : {<< <<"a">> >>}, readable : {FALSE}]

\* A read_file whose fallback branch decodes the content as plain text.
read_file_decoding_any(f) ==
    IF f.type = TextPlain THEN f.parts[1]
    ELSE IF f.type = Pdf THEN Join(<<NL>>, f.parts)
    ELSE IF f.type = Docx THEN Join(<<NL>>, f.parts)
    ELSE f.parts[1]

\* read_file on a file its parser accepts.
read_file(f) ==
    IF f.type = TextPlain THEN f.parts[1]
    ELSE IF f.type = Pdf THEN Join(<<NL>>, f.parts)
    ELSE IF f.type = Docx THEN Join(<<NL>>, f.parts)
    ELSE <<>>

\* read_file raises (outside the try block) when the parser rejects the file.
read_file_raises(f) == f.type \in SupportedTypes /\ ~f.readable

\* ------------------------------------------------------ external services
\* What GoogleTranslator(...).translate may return for target "en".
EnglishTexts == {<<"a">>, <<"a", SP, "a">>}
\* What it may return for the target language of the page (besides its
\* argument unchanged).
TranslatedTexts == {<<"é", SP, "a">>}
\* What the summarization pipeline may answer as summary_text.
SummaryTexts == {<<"a">>, <<"a", SP, "a">>}

\* ------------------------------------------------------------------ state
VARIABLES
    model_cache,        \* st.cache_resource entry of load_summarizer
    load_calls,         \* times the body of load_summarizer has run
    summarizer,         \* the module-level name bound at line 51
    input_mode, text_area, file, min_len, max_len, target_lang,  \* widgets
    text,               \* the text acquired by this run
    pc,                 \* where the current script run stands
    original_metrics, translated_input, summary, result,
    translated_summary, summary_metrics, compression_ratio,
    raised,             \* the exception raised in this run, and where
    calls,              \* the external calls of this run, in order
    ui                  \* the elements this run has rendered, in order

widgets == <<input_mode, text_area, file, min_len, max_len, target_lang>>
locals == <<original_metrics, translated_input, summary, result,
            translated_summary, summary_metrics, compression_ratio>>
process == <<model_cache, load_calls, summarizer>>
vars == <<process, widgets, text, pc, locals, raised, calls, ui>>

NoException == [at |-> "none", e |-> "none"]
UnboundRatio == [num |-> 0, den |-> 0]

\* Script positions inside the try block of the button handler.
Running == {"get_original_metrics", "translate_input", "summarize",
            "translate_summary", "get_summary_metrics", "render"}
\* Script positions at which a run has ended and the page waits for the user.
Ended == {"idle", "rejected_blank", "rejected_model", "done", "failed",
          "crashed"}

WarnEmpty == <<"warning", "Please enter or upload some text first.">>
ErrModelFailed ==
    <<"error", "Model failed to load. Please check your internet connection and try again.">>
ErrLoading == <<"error", "Error loading the model: ">>
InfoLoading ==
    <<"info", "Please make sure you have a stable internet connection and try again.">>
DocLoaded == <<"success", "Document loaded successfully!">>
ErrSummarization(e) == <<"error", "An error occurred during summarization: ", e>>
InfoRetry ==
    <<"info", "Please try again with a different text or check your internet connection.">>
InfoDownload == <<"info", "Click the link above to download the summary">>

Init ==
    /\ model_cache = "miss"
    /\ load_calls = 0
    /\ summarizer = "unbound"
    /\ input_mode = "Manual Text"
    /\ text_area = <<>>
    /\ file = NoFile
    /\ min_len = 30
    /\ max_len = 60
    /\ target_lang = "en"
    /\ text = <<>>
    /\ pc = "not_started"
    /\ original_metrics = UnboundMetrics
    /\ translated_input = UnboundText
    /\ summary = <<>>
    /\ result = UnboundText
    /\ translated_summary = UnboundText
    /\ summary_metrics = UnboundMetrics
    /\ compression_ratio = UnboundRatio
    /\ raised = NoException
    /\ calls = <<>>
    /\ ui = <<>>

\* --------------------------------------------------------- load_summarizer
\* A load_summarizer without the cache decorator: the body runs on every call.
load_summarizer_uncached ==
    \E loads \in BOOLEAN :
        /\ load_calls' = load_calls + 1
        /\ model_cache' = IF loads THEN "pipeline" ELSE "None"
        /\ summarizer' = model_cache'

\* summarizer = load_summarizer(): the body runs on a cache miss only; it
\* returns the pipeline, or None when from_pretrained raises (loads = FALSE).
load_summarizer ==
    IF model_cache = "miss"
    THEN \E loads \in BOOLEAN :
            /\ load_calls' = load_calls + 1
            /\ model_cache' = IF loads THEN "pipeline" ELSE "None"
            /\ summarizer' = model_cache'
    ELSE /\ UNCHANGED <<model_cache, load_calls>>
         /\ summarizer' = model_cache

\* The messages the body of load_summarizer renders when the load fails.
LoadMessages == IF model_cache = "miss" /\ model_cache' = "None"
                THEN <<ErrLoading, InfoLoading>> ELSE <<>>

\* ------------------------------------------------------------- validation
IsBlankUnstripped(t) == t = <<>>

\* not text.strip()
IsBlank(t) == Strip(t) = <<>>

ValidateModelFirst(t, s) ==
    IF s = "None" THEN "rejected_model"
    ELSE IF IsBlank(t) THEN "rejected_blank"
    ELSE "get_original_metrics"

ValidateTextOnly(t, s) ==
    IF IsBlank(t) THEN "rejected_blank" ELSE "get_original_metrics"

\* The if / elif / else of the button handler: where the run goes next.
Validate(t, s) ==
    IF IsBlank(t) THEN "rejected_blank"
    ELSE IF s = "None" THEN "rejected_model"
    ELSE "get_original_metrics"

ValidationMessages(outcome) ==
    IF outcome = "rejected_blank" THEN <<WarnEmpty>>
    ELSE IF outcome = "rejected_model" THEN <<ErrModelFailed>>
    ELSE <<>>

\* ------------------------------------------------------------- script run
\* One run of the script from line 1 with the widgets holding the given
\* values; clicked says whether the Summarize button caused the run.
ScriptRun(mode, typed, f, clicked) ==
    /\ load_summarizer
    /\ original_metrics' = UnboundMetrics
    /\ translated_input' = UnboundText
    /\ summary' = <<>>
    /\ result' = UnboundText
    /\ translated_summary' = UnboundText
    /\ summary_metrics' = UnboundMetrics
    /\ compression_ratio' = UnboundRatio
    /\ calls' = <<>>
    /\ IF mode = "Upload Document" /\ f # NoFile /\ read_file_raises(f)
       THEN /\ text' = <<>>
            /\ pc' = "crashed"
            /\ raised' = [at |-> "read_file", e |-> "ParserError"]
            /\ ui' = LoadMessages \o << <<"exception", "ParserError">> >>
       ELSE /\ text' = IF mode = "Manual Text" THEN typed
                       ELSE IF f # NoFile THEN read_file(f) ELSE <<>>
            /\ raised' = NoException
            /\ LET loaded == IF mode = "Upload Document" /\ f # NoFile
                             THEN <<DocLoaded>> ELSE <<>>
                   outcome == IF clicked THEN Validate(text', summarizer')
                              ELSE "idle"
               IN  /\ pc' = outcome
                   /\ ui' = LoadMessages \o loaded \o ValidationMessages(outcome)

\* The browser opens the page: the first run of the script.
OpenPage ==
    /\ pc = "not_started"
    /\ UNCHANGED widgets
    /\ ScriptRun(input_mode, text_area, file, FALSE)

\* The user edits the text area.
EnterText(t) ==
    /\ pc \in Ended
    /\ input_mode = "Manual Text"
    /\ t # text_area
    /\ text_area' = t
    /\ UNCHANGED <<input_mode, file, min_len, max_len, target_lang>>
    /\ ScriptRun(input_mode, t, file, FALSE)

\* The user flips the radio; the widget of the other mode is not rendered
\* any more and loses its value.
ChooseInputMode(m) ==
    /\ pc \in Ended
    /\ m # input_mode
    /\ input_mode' = m
    /\ text_area' = <<>>
    /\ file' = NoFile
    /\ UNCHANGED <<min_len, max_len, target_lang>>
    /\ ScriptRun(m, <<>>, NoFile, FALSE)

\* The user uploads a file.
UploadFile(f) ==
    /\ pc \in Ended
    /\ input_mode = "Upload Document"
    /\ f # file
    /\ file' = f
    /\ UNCHANGED <<input_mode, text_area, min_len, max_len, target_lang>>
    /\ ScriptRun(input_mode, text_area, f, FALSE)

SetMinLen(n) ==
    /\ pc \in Ended
    /\ n # min_len
    /\ min_len' = n
    /\ UNCHANGED <<input_mode, text_area, file, max_len, target_lang>>
    /\ ScriptRun(input_mode, text_area, file, FALSE)

SetMaxLen(n) ==
    /\ pc \in Ended
    /\ n # max_len
    /\ max_len' = n
    /\ UNCHANGED <<input_mode, text_area, file, min_len, target_lang>>
    /\ ScriptRun(input_mode, text_area, file, FALSE)

SelectLanguage(l) ==
    /\ pc \in Ended
    /\ l # target_lang
    /\ target_lang' = l
    /\ UNCHANGED <<input_mode, text_area, file, min_len, max_len>>
    /\ ScriptRun(input_mode, text_area, file, FALSE)

\* The user presses Summarize: the run reaches the button handler.
ClickSummarize ==
    /\ pc \in Ended
    /\ UNCHANGED widgets
    /\ ScriptRun(input_mode, text_area, file, TRUE)

\* ---------------------------------------------------- the button handler
\* A handler whose except clause does not match: the exception leaves it.
FailUncaught(at, e, shown) ==
    /\ pc' = "crashed"
    /\ raised' = [at |-> at, e |-> e]
    /\ ui' = shown \o << <<"exception", e>> >>

\* except Exception as e: the error and the hint are rendered after what
\* the run has shown so far, and the run ends.
Fail(at, e, shown) ==
    /\ pc' = "failed"
    /\ raised' = [at |-> at, e |-> e]
    /\ ui' = shown \o <<ErrSummarization(e), InfoRetry>>

RatioInverted(s, o) == [num |-> 100 * (s - o), den |-> o]

\* (1 - (s / o)) * 100, as the exact fraction num / den with den = o > 0.
Ratio(s, o) == [num |-> 100 * (o - s), den |-> o]

\* f"{ratio:.1f}": the number of tenths, rounded to nearest, ties to even
\* (exact on the fraction; the float it is computed from may differ in the
\* last place).
FormatTenths(r) ==
    LET q == (10 * r.num) \div r.den
        m == (10 * r.num) % r.den
    IN  IF 2 * m < r.den THEN q
        ELSE IF 2 * m > r.den THEN q + 1
        ELSE IF q % 2 = 0 THEN q ELSE q + 1

\* original_metrics = get_text_metrics(text)
GetOriginalMetrics ==
    /\ pc = "get_original_metrics"
    /\ calls' = Append(calls, <<"get_text_metrics", text>>)
    /\ \/ /\ original_metrics' = get_text_metrics(text)
          /\ pc' = "translate_input"
          /\ UNCHANGED <<raised, ui>>
       \/ /\ Fail("get_original_metrics", "LangDetectException", ui)
          /\ UNCHANGED original_metrics
    /\ UNCHANGED <<process, widgets, text, translated_input, summary, result,
                   translated_summary, summary_metrics, compression_ratio>>

\* A handler that takes the text as it is instead of normalising it to English.
TranslateInputSkipped ==
    /\ pc = "translate_input"
    /\ translated_input' = text
    /\ pc' = "summarize"
    /\ UNCHANGED <<process, widgets, text, original_metrics, summary, result,
                   translated_summary, summary_metrics, compression_ratio,
                   raised, calls, ui>>

\* translated_input = translate_text(text, "en")
TranslateInput ==
    /\ pc = "translate_input"
    /\ calls' = Append(calls, <<"translate_text", text, "en">>)
    /\ \/ /\ \E out \in EnglishTexts : translated_input' = out
          /\ pc' = "summarize"
          /\ UNCHANGED <<raised, ui>>
       \/ /\ Fail("translate_input", "TranslationException", ui)
          /\ UNCHANGED translated_input
    /\ UNCHANGED <<process, widgets, text, original_metrics, summary, result,
                   translated_summary, summary_metrics, compression_ratio>>

\* summary = summarizer(translated_input, max_length=max_len,
\*                      min_length=min_len, do_sample=False)
\* result = summary[0]['summary_text']
Summarize ==
    /\ pc = "summarize"
    /\ calls' = Append(calls, <<"summarizer", translated_input, max_len, min_len>>)
    /\ \/ /\ \E out \in SummaryTexts : summary' = << [summary_text |-> out] >>
          /\ result' = summary'[1].summary_text
          /\ pc' = "translate_summary"
          /\ UNCHANGED <<raised, ui>>
       \/ /\ Fail("summarize", "RuntimeError", ui)
          /\ UNCHANGED <<summary, result>>
    /\ UNCHANGED <<process, widgets, text, original_metrics, translated_input,
                   translated_summary, summary_metrics, compression_ratio>>

\* A handler that falls back to the untranslated summary when the second
\* translation raises.
TranslateSummaryFallback ==
    /\ pc = "translate_summary"
    /\ calls' = Append(calls, <<"translate_text", result, target_lang>>)
    /\ \/ /\ \E out \in TranslatedTexts \cup {result} : translated_summary' = out
          /\ UNCHANGED raised
       \/ /\ translated_summary' = result
          /\ raised' = [at |-> "translate_summary", e |-> "TranslationException"]
    /\ pc' = "get_summary_metrics"
    /\ UNCHANGED <<process, widgets, text, original_metrics, translated_input,
                   summary, result, summary_metrics, compression_ratio, ui>>

\* translated_summary = translate_text(result, target_lang)
TranslateSummary ==
    /\ pc = "translate_summary"
    /\ calls' = Append(calls, <<"translate_text", result, target_lang>>)
    /\ \/ /\ \E out \in TranslatedTexts \cup {result} : translated_summary' = out
          /\ pc' = "get_summary_metrics"
          /\ UNCHANGED <<raised, ui>>
       \/ /\ Fail("translate_summary", "TranslationException", ui)
          /\ UNCHANGED translated_summary
    /\ UNCHANGED <<process, widgets, text, original_metrics, translated_input,
                   summary, result, summary_metrics, compression_ratio>>

\* A handler that measures the translated summary.
GetSummaryMetricsOnTranslated ==
    /\ pc = "get_summary_metrics"
    /\ calls' = Append(calls, <<"get_text_metrics", translated_summary>>)
    /\ \/ /\ summary_metrics' = get_text_metrics(translated_summary)
          /\ pc' = "render"
          /\ UNCHANGED <<raised, ui>>
       \/ /\ Fail("get_summary_metrics", "LangDetectException", ui)
          /\ UNCHANGED summary_metrics
    /\ UNCHANGED <<process, widgets, text, original_metrics, translated_input,
                   summary, result, translated_summary, compression_ratio>>

\* summary_metrics = get_text_metrics(result)
GetSummaryMetrics ==
    /\ pc = "get_summary_metrics"
    /\ calls' = Append(calls, <<"get_text_metrics", result>>)
    /\ \/ /\ summary_metrics' = get_text_metrics(result)
          /\ pc' = "render"
          /\ UNCHANGED <<raised, ui>>
       \/ /\ Fail("get_summary_metrics", "LangDetectException", ui)
          /\ UNCHANGED summary_metrics
    /\ UNCHANGED <<process, widgets, text, original_metrics, translated_input,
                   summary, result, translated_summary, compression_ratio>>

\* Lines 120-161: the two metric panels, the compression ratio, the summary,
\* the copy box and the download link.
Render ==
    /\ pc = "render"
    /\ LET panels == << <<"metrics", "Original Text Metrics", original_metrics>>,
                        <<"metrics", "Summary Metrics", summary_metrics>> >>
       IN  IF original_metrics.word_count = 0
           THEN /\ Fail("compression_ratio", "ZeroDivisionError", ui \o panels)
                /\ UNCHANGED compression_ratio
           ELSE /\ compression_ratio' =
                       Ratio(summary_metrics.word_count, original_metrics.word_count)
                /\ pc' = "done"
                /\ ui' = ui \o panels \o
                     << <<"metric", "Compression Ratio", FormatTenths(compression_ratio')>>,
                        <<"summary", translated_summary>>,
                        <<"text_area", "Copy from here:", translated_summary>>,
                        <<"markdown", get_download_link(translated_summary, "summary.txt")>>,
                        InfoDownload >>
                /\ UNCHANGED raised
    /\ UNCHANGED <<process, widgets, text, original_metrics, translated_input,
                   summary, result, translated_summary, summary_metrics, calls>>

Next ==
    \/ OpenPage
    \/ \E t \in TypedTexts : EnterText(t)
    \/ \E m \in InputModes : ChooseInputMode(m)
    \/ \E f \in Files : UploadFile(f)
    \/ \E n \in MinLens : SetMinLen(n)
    \/ \E n \in MaxLens : SetMaxLen(n)
    \/ \E l \in Languages : SelectLanguage(l)
    \/ ClickSummarize
    \/ GetOriginalMetrics
    \/ TranslateInput
    \/ Summarize
    \/ TranslateSummary
    \/ GetSummaryMetrics
    \/ Render

Spec == Init /\ [][Next]_vars

\* ================================================================ claims
\* Reading the page.
Shows(el) == \E i \in 1..Len(ui) : ui[i][1] = el[1] /\ ui[i] = el
ShowsKind(k) == \E i \in 1..Len(ui) : ui[i][1] = k
ShowsResults ==
    \/ ShowsKind("metrics") \/ ShowsKind("metric") \/ ShowsKind("summary")
    \/ ShowsKind("text_area") \/ ShowsKind("markdown")
\* The text is empty or holds whitespace only.
OnlyWhitespace(t) == \A i \in 1..Len(t) : t[i] \in {SP, NL}
\* The positions of a run that the Summarize button caused and that reached
\* the button handler.
Requested == {"rejected_blank", "rejected_model", "done", "failed"} \cup Running
CallsTo(name) == Cardinality({i \in 1..Len(calls) : calls[i][1] = name})

\* C1: a Summarize request on blank text (empty or whitespace only) ends
\* with the empty-input warning and nothing else from the handler, and no
\* call to the metrics calculator, the translator or the summarizer is made
\* in that run, whether the model is ready or failed to load.
C1_BlankRejected ==
    (pc \in Requested /\ OnlyWhitespace(text)) =>
        /\ pc = "rejected_blank"
        /\ Shows(WarnEmpty)
        /\ ~ShowsKind("error")
        /\ ~ShowsResults
        /\ calls = <<>>

C1_Witness ==
    /\ pc = "rejected_blank"
    /\ text # <<>>
    /\ summarizer = "None"
    /\ target_lang # "en"
    /\ min_len # 30

\* C2 as stated: once the model failed to load, every request shows the
\* static model-failure message and makes no external call.
C2_AlwaysModelMessage ==
    (summarizer = "None" /\ pc \in Requested) =>
        /\ Shows(ErrModelFailed)
        /\ calls = <<>>

\* C2 amended: once the model failed to load, every request that reaches the
\* button handler is rejected without any external call and without another
\* load: with the empty-input warning when the text is blank, with the
\* static model-failure message otherwise.
C2_RejectedWithoutCalls ==
    summarizer = "None" =>
        /\ model_cache = "None"
        /\ load_calls = 1
        /\ calls = <<>>
        /\ pc \in Requested =>
              IF OnlyWhitespace(text)
              THEN pc = "rejected_blank" /\ Shows(WarnEmpty)
                   /\ ~Shows(ErrModelFailed)
              ELSE pc = "rejected_model" /\ Shows(ErrModelFailed)
                   /\ ~Shows(WarnEmpty) /\ ~ShowsResults

C2_Witness ==
    /\ pc = "rejected_model"
    /\ input_mode = "Upload Document"
    /\ load_calls = 1

\* The five calls of a request, in the order of the handler.
ExpectedCalls ==
    << <<"get_text_metrics", text>>,
       <<"translate_text", text, "en">>,
       <<"summarizer", translated_input, max_len, min_len>>,
       <<"translate_text", result, target_lang>>,
       <<"get_text_metrics", result>> >>

\* The calls a run has made when it stands at a position of the handler.
CallsBefore(p) ==
    CASE p = "get_original_metrics" -> 0
      [] p = "translate_input" -> 1
      [] p = "summarize" -> 2
      [] p = "translate_summary" -> 3
      [] p = "get_summary_metrics" -> 4
      [] p = "render" -> 5
      [] p = "done" -> 5

\* C3: in a request that passed validation and in which nothing raised, the
\* calls made so far are a prefix of metrics(text), translate(text, en),
\* summarizer(translated input), translate(result, target), metrics(result),
\* each made once and fed with the value the previous one returned; a run
\* that shows results has made all five.
C3_CallOrder ==
    /\ (pc \in Running \cup {"done"}) =>
          /\ raised = NoException
          /\ Len(calls) = CallsBefore(pc)
          /\ calls = SubSeq(ExpectedCalls, 1, CallsBefore(pc))
    /\ ShowsResults => Len(calls) = 5
    /\ pc = "done" => ShowsResults

C3_Witness ==
    /\ pc = "done"
    /\ calls = ExpectedCalls
    /\ target_lang = "ta"
    /\ min_len = 100

\* C4: when a translation call raises, the run ends failed with the error
\* message and the hint, and shows no metric panel, ratio, summary, copy box
\* or link; raised by the first translation, the summarizer was not called;
\* raised by the second, the summarizer was called once and its result is
\* bound but shown nowhere.
C4_TranslationFailure ==
    raised.e = "TranslationException" =>
        /\ pc = "failed"
        /\ Shows(ErrSummarization("TranslationException"))
        /\ Shows(InfoRetry)
        /\ ~ShowsResults
        /\ raised.at \in {"translate_input", "translate_summary"}
        /\ raised.at = "translate_input" =>
              /\ CallsTo("summarizer") = 0
              /\ CallsTo("translate_text") = 1
              /\ result = UnboundText
        /\ raised.at = "translate_summary" =>
              /\ CallsTo("summarizer") = 1
              /\ CallsTo("translate_text") = 2
              /\ result \in SummaryTexts
              /\ translated_summary = UnboundText

C4_Witness ==
    /\ pc = "failed"
    /\ raised.at = "translate_summary"
    /\ CallsTo("summarizer") = 1
    /\ target_lang = "fr"

\* C5: an exception raised inside the try block (by a metrics call, a
\* translation call, the summarizer or the ratio) never leaves the handler:
\* the run ends failed, showing the error with the exception and the hint
\* and no final text; the call that raised is the last call of the run and
\* no call is made twice; a run ends done only when nothing raised, and
\* then shows no error.  The one exception that ends a run outside the
\* handler is read_file's, raised before any call.
C5_ExceptionsCaught ==
    /\ (raised # NoException /\ raised.at # "read_file") =>
          /\ pc = "failed"
          /\ Shows(ErrSummarization(raised.e))
          /\ Shows(InfoRetry)
          /\ ~ShowsKind("exception")
          /\ ~ShowsKind("summary") /\ ~ShowsKind("text_area")
          /\ ~ShowsKind("markdown") /\ ~ShowsKind("metric")
          /\ raised.at \in Running \ {"render"} => ~ShowsResults
    /\ pc = "failed" => raised # NoException /\ raised.at # "read_file"
    /\ pc = "done" => raised = NoException /\ ~ShowsKind("error")
    /\ pc = "crashed" => raised.at = "read_file" /\ calls = <<>>
    /\ Len(calls) <= 5
    /\ \A i \in 1..Len(calls) : calls[i][1] = ExpectedCalls[i][1]
    /\ (raised # NoException /\ raised.at \in Running \ {"render"}) =>
          Len(calls) = CallsBefore(raised.at) + 1

C5_Witness ==
    /\ pc = "failed"
    /\ raised = [at |-> "summarize", e |-> "RuntimeError"]
    /\ Len(calls) = 3
    /\ input_mode = "Upload Document"

\* C6: the body of load_summarizer runs at most once in the process; once
\* the cache holds its outcome (the pipeline, or None) no step changes it or
\* runs the body again; every run binds summarizer to the cached outcome,
\* and a request in the pipeline uses the cached pipeline.
C6_LoadedOnce ==
    /\ [](/\ load_calls <= 1
          /\ (model_cache = "miss") <=> (load_calls = 0)
          /\ pc # "not_started" =>
                summarizer = model_cache /\ summarizer \in {"pipeline", "None"}
          /\ pc \in Running \cup {"done", "failed"} => summarizer = "pipeline")
    /\ [][model_cache # "miss" =>
            model_cache' = model_cache /\ load_calls' = load_calls]_vars

C6_Witness ==
    /\ pc = "done"
    /\ load_calls = 1
    /\ summarizer = "pipeline"
    /\ target_lang = "hi"
    /\ max_len = 30

\* C7: in a completed request, with o the original and s the summary word
\* count, o >= 1, the ratio equals 100 * (o - s) / o, and it is positive when
\* s < o, zero when s = o, negative when s > o.
C7_RatioSign ==
    pc = "done" =>
        LET o == original_metrics.word_count
            s == summary_metrics.word_count
            r == compression_ratio
        IN  /\ o >= 1
            /\ r.den > 0
            /\ r.num * o = 100 * (o - s) * r.den
            /\ s < o => r.num > 0
            /\ s = o => r.num = 0
            /\ s > o => r.num < 0

C7_Witness ==
    /\ pc = "done"
    /\ summary_metrics.word_count = 1
    /\ original_metrics.word_count = 2
    /\ compression_ratio.num > 0

\* C8: with an uploaded file of a type other than plain text, PDF or DOCX,
\* every run acquires the empty text, reports the document as loaded and
\* shows neither an error nor an exception; a Summarize request ends with
\* the empty-input warning and without any external call.
C8_UnsupportedType ==
    (/\ pc # "not_started"
     /\ input_mode = "Upload Document"
     /\ file # NoFile
     /\ file.type \notin {TextPlain, Pdf, Docx}) =>
        /\ text = <<>>
        /\ pc \in {"idle", "rejected_blank"}
        /\ Shows(DocLoaded)
        /\ ~ShowsKind("error")
        /\ ~ShowsKind("exception")
        /\ raised = NoException
        /\ calls = <<>>
        /\ pc = "rejected_blank" => Shows(WarnEmpty)

C8_Witness ==
    /\ pc = "rejected_blank"
    /\ file.type = OtherType
    /\ file.parts = << <<"a">> >>
    /\ summarizer = "None"

\* What a browser saves from the link: the base64 digits decoded, as UTF-8.
B64Value(d) == CHOOSE n \in 0..63 : B64Digit(n) = d

RECURSIVE B64Decode(_)
B64Decode(d) ==
    IF d = <<>> THEN <<>>
    ELSE LET v1 == B64Value(d[1])
             v2 == B64Value(d[2])
             rest == SubSeq(d, 5, Len(d))
         IN  IF d[3] = "=" THEN << v1 * 4 + (v2 \div 16) >>
             ELSE LET v3 == B64Value(d[3])
                  IN  IF d[4] = "="
                      THEN << v1 * 4 + (v2 \div 16), (v2 % 16) * 16 + (v3 \div 4) >>
                      ELSE << v1 * 4 + (v2 \div 16),
                              (v2 % 16) * 16 + (v3 \div 4),
                              (v3 % 4) * 64 + B64Value(d[4]) >> \o B64Decode(rest)

RECURSIVE Utf8Decode(_)
Utf8Decode(b) ==
    IF b = <<>> THEN <<>>
    ELSE IF b[1] < 128
    THEN << CHOOSE c \in AllChars : Utf8Char(c) = << b[1] >> >>
             \o Utf8Decode(Tail(b))
    ELSE << CHOOSE c \in AllChars : Utf8Char(c) = << b[1], b[2] >> >>
             \o Utf8Decode(SubSeq(b, 3, Len(b)))

DownloadedText(link) == Utf8Decode(B64Decode(Tail(link.href)))

\* C9: in a completed request the summary metrics are those of the
\* summarizer's output and the ratio uses its word count, while the summary
\* section, the copy box and the content of the summary.txt link are the
\* output of the second translation, for every target language.
C9_MetricsOnSummaryTextTranslated ==
    pc = "done" =>
        /\ summary_metrics = get_text_metrics(result)
        /\ compression_ratio.num =
              100 * (original_metrics.word_count - Len(Split(result)))
        /\ calls[4] = <<"translate_text", result, target_lang>>
        /\ translated_summary \in TranslatedTexts \cup {result}
        /\ \A i \in 1..Len(ui) :
              /\ ui[i][1] = "summary" => ui[i][2] = translated_summary
              /\ ui[i][1] = "text_area" => ui[i][3] = translated_summary
              /\ ui[i][1] = "markdown" =>
                    /\ ui[i][2].download = "summary.txt"
                    /\ DownloadedText(ui[i][2]) = translated_summary
        /\ ShowsKind("summary") /\ ShowsKind("text_area") /\ ShowsKind("markdown")
        /\ Shows(<<"metrics", "Summary Metrics", get_text_metrics(result)>>)

C9_Witness ==
    /\ pc = "done"
    /\ target_lang = "es"
    /\ translated_summary # result
    /\ Len(Split(translated_summary)) # Len(Split(result))
    /\ summary_metrics.word_count = Len(Split(result))

\* C10: a text that passes the validation has at least one word, so every
\* request in the pipeline has an original word count of at least 1 and
\* the ratio never divides by zero.
C10_NoDivisionByZero ==
    /\ pc \in Running \cup {"done", "failed"} =>
          ~OnlyWhitespace(text) /\ Len(Split(text)) >= 1
    /\ pc \in {"render", "done"} => original_metrics.word_count >= 1
    /\ raised.e # "ZeroDivisionError"

C10_Witness ==
    /\ pc = "done"
    /\ Len(Strip(text)) < Len(text)
    /\ original_metrics.word_count = 1
    /\ compression_ratio.den = 1

====
